---- MODULE Spec2Model ----
(***************************************************************************)
(* Model of tennisfoundry's main.py: the rate-limit-aware fetcher          *)
(* (try_fetch_json_with_backoff), the rank resolver                        *)
(* (normalize_rank / extract_rank_from_player_or_match), the match         *)
(* aggregator (get_matches), the snapshot cache                            *)
(* (load_cached_matches / save_cached_matches) and the helpers deep_get,   *)
(* extract_surface and normalize_image_url.                                *)
(*                                                                         *)
(* Python values are modelled as tagged records of one shape, so that any  *)
(* two of them can be compared: kind is the Python type, n the numeric     *)
(* content, s the text (a sequence of one-character strings) and d the     *)
(* mapping of a dict.                                                      *)
(***************************************************************************)
EXTENDS Integers, Sequences, FiniteSets, TLC

VARIABLES
    \* ---- try_fetch_json_with_backoff (one call) ----
    fpc,          \* "idle" | "loop" | "sleep" | "done" | "raised"
    max_retries,  \* the max_retries argument of the call
    attempt,      \* the loop variable of `for attempt in range(max_retries)`
    wait_s,       \* the local wait_s, as a waits record
    responses,    \* outcomes of the GETs issued so far, in order
    waits,        \* the time.sleep calls made so far, in order
    fresult,      \* the value returned (None until then)
    \* ---- extract_rank_from_player_or_match (one call) ----
    rpc,          \* "idle" | "call" | "done" | "raised"
    rplayer,      \* the player_data argument
    rmatch,       \* the match_data argument
    rresult,      \* the value returned
    \* ---- deep_get, normalize_image_url (one call) ----
    cpc,          \* "idle" | "call" | "done"
    cfn,          \* the function called
    cargs,        \* its arguments
    cresult,      \* what the call gave: the value returned, or raised
    \* ---- get_matches (successive runs of the process) ----
    pc,           \* "idle" | "fetch" | "records" | "finish" | "returned" | "raised"
    DESIGN_MODE,  \* the DESIGN_MODE flag of the process
    upstream,     \* indices in RawRecords of the records the upstream API may serve
    run,          \* number of the current run, from 1
    tourIx,       \* index in TourKeys of the division being fetched
    dayIx,        \* index in date_list of the day being fetched
    page,         \* the page variable
    pageLen,      \* len(raw_matches) of the fetched page
    pending,      \* records of the fetched page not yet processed
    all_matches,  \* ATP/WTA -> buckets of fixtures, in insertion order
    seen_keys,    \* the seen_keys set
    total_kept,   \* the total_kept counter
    cacheFile,    \* content of cache/matches.json
    returned,     \* value returned by the run
    fromCache,    \* TRUE when the run returned what load_cached_matches gave
    saved,        \* what save_cached_matches did in this run
    lastOut,      \* history: what became of the record processed last
    firstOf,      \* history: per dedupe key, the first record of the run that
                  \* passed the filters with it (its division and fixture)
    lastKept,     \* history: what the most recent run that kept a fixture returned
    fileOps       \* history: the calls of load_cached_matches ("load") and of
                  \* save_cached_matches ("save") made by the run, in order

fetchVars == <<fpc, max_retries, attempt, wait_s, responses, waits, fresult>>
rankVars  == <<rpc, rplayer, rmatch, rresult>>
aggVars   == <<pc, DESIGN_MODE, upstream, run, tourIx, dayIx, page, pageLen,
               pending, all_matches, seen_keys, total_kept, cacheFile, returned,
               fromCache, saved, lastOut, firstOf, lastKept, fileOps>>
callVars  == <<cpc, cfn, cargs, cresult>>
vars      == <<fetchVars, rankVars, aggVars, callVars>>

-----------------------------------------------------------------------------
(* Python values *)

EmptyMap == [k \in {} |-> 0]

None      == [kind |-> "none",  n |-> 0, s |-> <<>>, d |-> EmptyMap]
JInt(i)   == [kind |-> "int",   n |-> i, s |-> <<>>, d |-> EmptyMap]
JBool(b)  == [kind |-> "bool",  n |-> IF b THEN 1 ELSE 0, s |-> <<>>, d |-> EmptyMap]
\* a finite float with a fractional part: n + 1/2 for n >= 0, n - 1/2 for n < 0
JFloat(i) == [kind |-> "float", n |-> i, s |-> <<>>, d |-> EmptyMap]
\* float('inf'), which json.loads gives for 1e999 or Infinity
JInf      == [kind |-> "inf",   n |-> 0, s |-> <<>>, d |-> EmptyMap]
JNaN      == [kind |-> "nan",   n |-> 0, s |-> <<>>, d |-> EmptyMap]
JStr(t)   == [kind |-> "str",   n |-> 0, s |-> t,    d |-> EmptyMap]
JList(k)  == [kind |-> "list",  n |-> k, s |-> <<>>, d |-> EmptyMap]
JDict(f)  == [kind |-> "dict",  n |-> 0, s |-> <<>>, d |-> f]

\* bool(v): the truth value Python gives v in `if v`, `v or w`, `not v`
Truthy(v) ==
    CASE v.kind = "none"  -> FALSE
      [] v.kind = "bool"  -> v.n = 1
      [] v.kind = "int"   -> v.n # 0
      [] v.kind = "float" -> TRUE
      [] v.kind = "inf"   -> TRUE
      [] v.kind = "nan"   -> TRUE
      [] v.kind = "str"   -> Len(v.s) > 0
      [] v.kind = "list"  -> v.n > 0
      [] v.kind = "dict"  -> DOMAIN v.d # {}

\* a or b
Or(a, b) == IF Truthy(a) THEN a ELSE b

\* d.get(key, default) of a dict d
Get(d, key, default) == IF key \in DOMAIN d.d THEN d.d[key] ELSE default

-----------------------------------------------------------------------------
(* Text: a str is a sequence of one-character strings *)

Digits == <<"0", "1", "2", "3", "4", "5", "6", "7", "8", "9">>

IsDigit(c) == \E i \in 1..10 : Digits[i] = c

DigitVal(c) == (CHOOSE i \in 1..10 : Digits[i] = c) - 1

IsSpace(c) == c \in {" ", "\t", "\n"}

RECURSIVE LStrip(_)
LStrip(t) == IF Len(t) > 0 /\ IsSpace(Head(t)) THEN LStrip(Tail(t)) ELSE t

RECURSIVE RStrip(_)
RStrip(t) ==
    IF Len(t) > 0 /\ IsSpace(t[Len(t)]) THEN RStrip(SubSeq(t, 1, Len(t) - 1)) ELSE t

\* str.strip()
Strip(t) == RStrip(LStrip(t))

RECURSIVE DigitsValue(_)
DigitsValue(t) ==
    IF Len(t) = 0 THEN 0
    ELSE 10 * DigitsValue(SubSeq(t, 1, Len(t) - 1)) + DigitVal(t[Len(t)])

\* int(t) for a str t: surrounding blanks, an optional sign, then digits only;
\* anything else is a ValueError (ok = FALSE)
ParseDigits(body, neg) ==
    IF Len(body) > 0 /\ \A i \in 1..Len(body) : IsDigit(body[i])
    THEN [ok |-> TRUE, n |-> IF neg THEN 0 - DigitsValue(body) ELSE DigitsValue(body)]
    ELSE [ok |-> FALSE, n |-> 0]

ParseSigned(u) ==
    IF Len(u) > 0 /\ Head(u) \in {"-", "+"} THEN ParseDigits(Tail(u), Head(u) = "-")
    ELSE ParseDigits(u, FALSE)

ParseInt(t) == ParseSigned(Strip(t))

\* int(v): what the conversion does for each Python type.
\* out is "value", "TypeError", "ValueError" or "OverflowError".
IntOfParsed(p) ==
    IF p.ok THEN [out |-> "value", n |-> p.n] ELSE [out |-> "ValueError", n |-> 0]

IntOf(v) ==
    CASE v.kind = "int"   -> [out |-> "value", n |-> v.n]
      [] v.kind = "bool"  -> [out |-> "value", n |-> v.n]
      [] v.kind = "float" -> [out |-> "value", n |-> v.n]   \* truncation toward zero
      [] v.kind = "inf"   -> [out |-> "OverflowError", n |-> 0]
      [] v.kind = "nan"   -> [out |-> "ValueError", n |-> 0]
      [] v.kind = "str"   -> IntOfParsed(ParseInt(v.s))
      [] OTHER            -> [out |-> "TypeError", n |-> 0]

RECURSIVE Pow2(_)
Pow2(k) == IF k = 0 THEN 1 ELSE 2 * Pow2(k - 1)

Min(a, b) == IF a <= b THEN a ELSE b

-----------------------------------------------------------------------------
(* try_fetch_json_with_backoff *)

\* default of the max_retries parameter
DefaultMaxRetries == 5

\* ceiling of the computed backoff, in seconds
BackoffCap == 20

\* largest max_retries argument explored
MaxRetriesArg == 6

\* Values of the Retry-After header of a 429: absent, empty, "0", "30", "-1"
\* and a text that is no integer
RetryAfterValues ==
    { None, JStr(<<>>), JStr(<<"0">>), JStr(<<"3", "0">>), JStr(<<"-", "1">>),
      JStr(<<"x">>) }

\* Parsed bodies of a 200 response: a page mapping, and JSON null
Payloads == { JDict([data |-> JList(1)]), None }

OtherStatuses == {404, 500}

\* Outcomes of requests.get: an exception, or a response with its status, its
\* Retry-After header and what r.json() does (parses = FALSE: it raises)
Responses ==
    { [err |-> TRUE, status |-> 0, retry_after |-> None, parses |-> FALSE, payload |-> None] }
    \cup { [err |-> FALSE, status |-> 200, retry_after |-> None, parses |-> TRUE, payload |-> p]
           : p \in Payloads }
    \cup { [err |-> FALSE, status |-> 200, retry_after |-> None, parses |-> FALSE, payload |-> None] }
    \cup { [err |-> FALSE, status |-> 429, retry_after |-> h, parses |-> FALSE, payload |-> None]
           : h \in RetryAfterValues }
    \cup { [err |-> FALSE, status |-> st, retry_after |-> None, parses |-> FALSE, payload |-> None]
           : st \in OtherStatuses }

\* The branch of the loop body a GET's outcome takes
OutcomeRetryUnlessOk(resp) ==
    CASE resp.err          -> "failed"
      [] resp.status = 200 -> IF resp.parses THEN "payload" ELSE "parse_failed"
      [] OTHER             -> "rate_limited"

Outcome(resp) ==
    CASE resp.err          -> "failed"
      [] resp.status = 200 -> IF resp.parses THEN "payload" ELSE "parse_failed"
      [] resp.status = 429 -> "rate_limited"
      [] OTHER             -> "other_status"

\* wait_s = int(retry_after), or 2 ** attempt when int() raises
AdvisedOr(c, k) ==
    IF c.out = "value" THEN [s |-> c.n, advised |-> TRUE]
    ELSE [s |-> Pow2(k), advised |-> FALSE]

\* wait_s for a 429 at loop index k; advised is TRUE when it is int(Retry-After)
WaitFor(retry_after, k) ==
    IF Truthy(retry_after) THEN AdvisedOr(IntOf(retry_after), k)
    ELSE [s |-> Min(Pow2(k), BackoffCap), advised |-> FALSE]

NoWait == [s |-> 0, advised |-> FALSE]

FetchIdle ==
    /\ fpc = "idle" /\ max_retries = 0 /\ attempt = 0 /\ wait_s = NoWait
    /\ responses = <<>> /\ waits = <<>> /\ fresult = None

FetchInit ==
    /\ fpc = "loop"
    /\ max_retries \in 0..MaxRetriesArg
    /\ attempt = 0
    /\ wait_s = NoWait
    /\ responses = <<>>
    /\ waits = <<>>
    /\ fresult = None

\* One pass of the loop body up to its return, or up to time.sleep
FetchGet(resp) ==
    /\ fpc = "loop"
    /\ attempt < max_retries
    /\ responses' = Append(responses, resp)
    /\ IF Outcome(resp) = "rate_limited"
       THEN /\ wait_s' = WaitFor(resp.retry_after, attempt)
            /\ fpc' = "sleep"
            /\ fresult' = fresult
       ELSE /\ fpc' = "done"
            /\ fresult' = IF Outcome(resp) = "payload" THEN resp.payload ELSE None
            /\ wait_s' = wait_s
    /\ UNCHANGED <<max_retries, attempt, waits>>

\* time.sleep(wait_s); continue.  time.sleep raises ValueError for a negative length.
FetchSleep ==
    /\ fpc = "sleep"
    /\ IF wait_s.s < 0
       THEN /\ fpc' = "raised"
            /\ UNCHANGED <<attempt, waits>>
       ELSE /\ waits' = Append(waits, wait_s)
            /\ attempt' = attempt + 1
            /\ fpc' = "loop"
    /\ UNCHANGED <<max_retries, wait_s, responses, fresult>>

\* the loop ran out: "Exceeded retries", return None
FetchExceeded ==
    /\ fpc = "loop"
    /\ attempt >= max_retries
    /\ fpc' = "done"
    /\ fresult' = None
    /\ UNCHANGED <<max_retries, attempt, wait_s, responses, waits>>


-----------------------------------------------------------------------------
(* deep_get, normalize_rank, extract_rank_from_player_or_match *)

\* Marks a key left out of a mapping built by MkDict; never a value of the program
Absent == [kind |-> "absent", n |-> 0, s |-> <<>>, d |-> EmptyMap]

\* The dict with the given <<key, value>> pairs, the Absent ones left out
MkDict(pairs) ==
    LET here == { i \in 1..Len(pairs) : pairs[i][2] # Absent }
        keys == { pairs[i][1] : i \in here }
    IN  JDict([k \in keys |-> pairs[CHOOSE i \in here : pairs[i][1] = k][2]])

\* deep_get giving None, not the default, where the walk stops
RECURSIVE deep_get_none(_, _, _)
deep_get_none(cur, path, default) ==
    IF Len(path) = 0 THEN cur
    ELSE IF cur.kind # "dict" \/ Head(path) \notin DOMAIN cur.d THEN None
    ELSE deep_get_none(cur.d[Head(path)], Tail(path), default)

RECURSIVE deep_get(_, _, _)
deep_get(cur, path, default) ==
    IF Len(path) = 0 THEN cur
    ELSE IF cur.kind # "dict" \/ Head(path) \notin DOMAIN cur.d THEN default
    ELSE deep_get(cur.d[Head(path)], Tail(path), default)

RankLimit == 5000

\* Result of a call that may raise: raised = TRUE, or the value returned
Returns(v) == [raised |-> FALSE, v |-> v]
Raises     == [raised |-> TRUE, v |-> None]

\* r = int(value) in a try that catches TypeError and ValueError only;
\* r if 0 < r < 5000, else None
InRange(c) ==
    CASE c.out = "value" ->
           IF 0 < c.n /\ c.n < RankLimit THEN Returns(JInt(c.n)) ELSE Returns(None)
      [] c.out \in {"TypeError", "ValueError"} -> Returns(None)
      [] OTHER -> Raises

normalize_rank(value) == InRange(IntOf(value))

\* f"{key_prefix}Rank" and f"{key_prefix}_rank"
PrefixRank(key_prefix)  == IF key_prefix = "player1" THEN "player1Rank" ELSE "player2Rank"
Prefix_rank(key_prefix) == IF key_prefix = "player1" THEN "player1_rank" ELSE "player2_rank"

\* the candidates list, in the order of the source
RankCandidates(player_data, match_data, key_prefix) ==
    << Get(player_data, "ranking", None),
       Get(player_data, "rank", None),
       deep_get(player_data, <<"ranking", "rank">>, None),
       deep_get(player_data, <<"ranking", "position">>, None),
       deep_get(player_data, <<"rankings", "singles", "rank">>, None),
       deep_get(player_data, <<"rankings", "singles", "position">>, None),
       deep_get(player_data, <<"ranking", "singles", "rank">>, None),
       deep_get(player_data, <<"ranking", "singles", "position">>, None),
       deep_get(player_data, <<"stats", "ranking">>, None),
       deep_get(player_data, <<"stats", "rank">>, None),
       Get(match_data, PrefixRank(key_prefix), None),
       Get(match_data, Prefix_rank(key_prefix), None),
       deep_get(match_data, <<key_prefix, "ranking">>, None),
       deep_get(match_data, <<key_prefix, "rank">>, None),
       deep_get(match_data, <<key_prefix, "rankings", "singles", "rank">>, None) >>

\* for c in candidates: r = normalize_rank(c); if r is not None: return r
RECURSIVE FirstRank(_)
RECURSIVE RankOrNext(_, _)
RankOrNext(r, rest) ==
    IF r.raised THEN Raises
    ELSE IF r.v # None THEN Returns(r.v)
    ELSE FirstRank(rest)

FirstRank(cands) ==
    IF Len(cands) = 0 THEN Returns(None)
    ELSE RankOrNext(normalize_rank(Head(cands)), Tail(cands))

extract_rank_from_player_or_match(player_data, match_data, key_prefix) ==
    FirstRank(RankCandidates(player_data, match_data, key_prefix))

\* Values a rank field of a record may hold
RankScalars ==
    { None, JInt(0), JInt(7), JInt(4999), JInt(5000), JInt(0 - 3), JBool(TRUE),
      JFloat(3), JInf, JNaN, JStr(<<"1", "2">>), JStr(<<"N", "/", "A">>),
      JStr(<<" ", "9">>), JStr(<<"2", ".", "5">>), JList(1) }

\* player records: a "ranking" field that is a scalar or a nested mapping, and
\* a "rank" or "stats" field
RankPlayers ==
    { MkDict(<< <<"ranking", a>>, <<"rank", b>> >>) :
        a \in RankScalars \cup {Absent, JDict([rank |-> JInt(3)]),
                                JDict([singles |-> JDict([position |-> JInt(8)])])},
        b \in {Absent, JInt(5), JStr(<<"N", "/", "A">>), JInt(5000)} }
    \cup { MkDict(<< <<"rankings", JDict([singles |-> JDict([rank |-> a])])>>,
                    <<"stats", JDict([rank |-> b])>> >>) :
        a \in {JInt(11), JInt(0), JInf}, b \in {JInt(21), JInt(9999)} }

\* match records seen by the resolver with key_prefix "player1"
RankMatches ==
    { MkDict(<< <<"player1Rank", a>>, <<"player1", b>> >>) :
        a \in {Absent, JInt(40), JStr(<<"x">>)},
        b \in {Absent, MkDict(<< <<"rank", JInt(50)>> >>), JStr(<<"A">>)} }

RankIdle == rpc = "idle" /\ rplayer = None /\ rmatch = None /\ rresult = None

RankInit ==
    /\ rpc = "call"
    /\ rplayer \in RankPlayers
    /\ rmatch \in RankMatches
    /\ rresult = None

\* p1_rank = extract_rank_from_player_or_match(p1, m, "player1")
RankCall ==
    /\ rpc = "call"
    /\ LET r == extract_rank_from_player_or_match(rplayer, rmatch, "player1")
       IN  /\ rpc' = IF r.raised THEN "raised" ELSE "done"
           /\ rresult' = r.v
    /\ UNCHANGED <<rplayer, rmatch>>

-----------------------------------------------------------------------------
(* Text operations used by get_matches and its helpers.  A character examined *)
(* by the program is one element; a run of characters the program never looks *)
(* into ("ui-avatars.com") may be written as one element.                     *)

UpperLetters == <<"A", "B", "C", "D", "E", "F", "G", "H", "I", "J", "K", "L", "M",
                  "N", "O", "P", "Q", "R", "S", "T", "U", "V", "W", "X", "Y", "Z">>
LowerLetters == <<"a", "b", "c", "d", "e", "f", "g", "h", "i", "j", "k", "l", "m",
                  "n", "o", "p", "q", "r", "s", "t", "u", "v", "w", "x", "y", "z">>

LowerChar(c) ==
    IF \E i \in 1..26 : UpperLetters[i] = c
    THEN LowerLetters[CHOOSE i \in 1..26 : UpperLetters[i] = c]
    ELSE c

\* str.lower()
Lower(t) == [i \in 1..Len(t) |-> LowerChar(t[i])]

\* needle in hay, for two strs
Contains(hay, needle) ==
    \E i \in 1..(Len(hay) - Len(needle) + 1) : SubSeq(hay, i, i + Len(needle) - 1) = needle

\* str.startswith
StartsWith(t, prefix) == Len(t) >= Len(prefix) /\ SubSeq(t, 1, Len(prefix)) = prefix

RECURSIVE NatDigits(_)
NatDigits(k) ==
    IF k < 10 THEN <<Digits[k + 1]>> ELSE Append(NatDigits(k \div 10), Digits[(k % 10) + 1])

\* str(v), and the text an f-string puts for v
Str(v) ==
    CASE v.kind = "str"   -> v.s
      [] v.kind = "int"   -> IF v.n < 0 THEN <<"-">> \o NatDigits(0 - v.n) ELSE NatDigits(v.n)
      [] v.kind = "none"  -> <<"None">>
      [] v.kind = "bool"  -> IF v.n = 1 THEN <<"True">> ELSE <<"False">>
      [] v.kind = "list"  -> IF v.n = 0 THEN <<"[", "]">> ELSE <<"[", "..", "]">>
      [] v.kind = "dict"  -> IF DOMAIN v.d = {} THEN <<"{", "}">> ELSE <<"{", "..", "}">>
      [] OTHER            -> <<"float">>

S_Unknown == <<"U", "n", "k", "n", "o", "w", "n">>
S_Hard    == <<"H", "a", "r", "d">>
S_Clay    == <<"C", "l", "a", "y">>
S_Grass   == <<"G", "r", "a", "s", "s">>

EmptyDict == JDict(EmptyMap)

\* the first truthy of the six places a surface may be at, else "Unknown"
FoundSurface(tourn, match_obj) ==
    Or(Get(tourn, "surface", None),
    Or(deep_get(tourn, <<"court", "surface">>, None),
    Or(deep_get(tourn, <<"court", "name">>, None),
    Or(Get(match_obj, "surface", None),
    Or(deep_get(match_obj, <<"court", "surface">>, None),
    Or(deep_get(match_obj, <<"court", "name">>, None),
       JStr(S_Unknown)))))))

\* if isinstance(surface, dict): surface = surface.get("name") or surface.get("surface") or "Unknown"
Undict(surface) ==
    IF surface.kind = "dict"
    THEN Or(Get(surface, "name", None), Or(Get(surface, "surface", None), JStr(S_Unknown)))
    ELSE surface

\* if not surface: surface = "Unknown"
OrUnknown(surface) == IF Truthy(surface) THEN surface ELSE JStr(S_Unknown)

\* the three verbose labels collapse; any other text is returned as it is
Canonical(s, lo) ==
    CASE lo \in { <<"h", "a", "r", "d", "c", "o", "u", "r", "t">>,
                  <<"h", "a", "r", "d", " ", "c", "o", "u", "r", "t">> } -> S_Hard
      [] lo \in { <<"c", "l", "a", "y", "c", "o", "u", "r", "t">>,
                  <<"c", "l", "a", "y", " ", "c", "o", "u", "r", "t">> } -> S_Clay
      [] lo \in { <<"g", "r", "a", "s", "s", "c", "o", "u", "r", "t">>,
                  <<"g", "r", "a", "s", "s", " ", "c", "o", "u", "r", "t">> } -> S_Grass
      [] OTHER -> s

CanonicalOf(s) == Canonical(s, Lower(s))

extract_surface(tourn, match_obj) ==
    CanonicalOf(Strip(Str(OrUnknown(Undict(FoundSurface(tourn, match_obj))))))

\* quote_plus: letters, digits and "_.-~" stay, a blank becomes "+", anything
\* else is percent-encoded
QuoteChar(c) ==
    CASE c = " " -> <<"+">>
      [] c = "/" -> <<"%", "2", "F">>
      [] c = "|" -> <<"%", "7", "C">>
      [] OTHER   -> <<c>>

RECURSIVE quote_plus(_)
quote_plus(t) == IF Len(t) = 0 THEN <<>> ELSE QuoteChar(Head(t)) \o quote_plus(Tail(t))

S_https == <<"h", "t", "t", "p", "s", ":", "/", "/">>
S_http  == <<"h", "t", "t", "p", ":", "/", "/">>

\* the f-string of avatar_fallback_url around the quoted name
AvatarUrl(name_q) ==
    JStr(S_https \o <<"ui-avatars.com", "/", "api", "/", "?", "name", "=">> \o name_q
         \o <<"&background=111827&color=E5E7EB&bold=true&size=128&format=png">>)

\* player_name.strip() if player_name else "Player", quoted into the avatar URL;
\* .strip() of a value that is no str is an AttributeError
avatar_fallback_url(player_name) ==
    IF ~Truthy(player_name) THEN Returns(AvatarUrl(quote_plus(<<"P", "l", "a", "y", "e", "r">>)))
    ELSE IF player_name.kind # "str" THEN Raises
    ELSE Returns(AvatarUrl(quote_plus(Strip(player_name.s))))

\* the url picked out of the raw reference
RawUrl(raw) ==
    CASE raw.kind = "dict" ->
           Or(Get(raw, "url", None), Or(Get(raw, "image", None),
           Or(Get(raw, "path", None), Or(Get(raw, "photo", None), JStr(<<>>)))))
      [] raw.kind = "str" -> JStr(Strip(raw.s))
      [] OTHER -> JStr(<<>>)

\* if url.startswith("//"): url = "https:" + url
AddScheme(u) == IF StartsWith(u, <<"/", "/">>) THEN <<"h", "t", "t", "p", "s", ":">> \o u ELSE u

\* if url.startswith("http://"): url = "https://" + url[len("http://"):]
UpgradeHttp(u) ==
    IF StartsWith(u, S_http) THEN S_https \o SubSeq(u, Len(S_http) + 1, Len(u)) ELSE u

\* TRUE when the upgraded url is returned, FALSE when the placeholder is
Absolute(u) ==
    /\ ~StartsWith(u, <<"/">>)
    /\ StartsWith(u, S_https) \/ StartsWith(u, S_http)

UrlOrAvatar(u, fallback) == IF Absolute(u) THEN Returns(JStr(u)) ELSE fallback

NormalizeUrl(url, fallback) ==
    IF ~Truthy(url) THEN fallback
    ELSE IF url.kind # "str" THEN Raises       \* url.startswith: AttributeError
    ELSE UrlOrAvatar(UpgradeHttp(AddScheme(url.s)), fallback)

normalize_image_url(raw, player_name) ==
    NormalizeUrl(RawUrl(raw), avatar_fallback_url(player_name))

-----------------------------------------------------------------------------
(* One call of a helper with arguments of any shape the JSON payload can give *)

T_a     == <<"a", ".", "j", "p", "g">>
T_cdn   == <<"c", "d", "n", "/", "a">>

\* raw image references: absent, empty, blank, absolute, protocol-relative,
\* root-relative, other schemes, no scheme, and values that are no str
ImageTexts ==
    { <<>>, <<" ">>, S_https \o T_cdn, <<" ">> \o S_https \o T_cdn, S_http \o T_cdn,
      <<"/", "/">> \o T_cdn, <<"/">> \o T_a, T_a, <<"f", "t", "p", ":", "/", "/">> \o T_cdn,
      <<"H", "T", "T", "P", ":", "/", "/">> \o T_cdn }

ImageValues == { JStr(t) : t \in ImageTexts } \cup { None, JInt(5), JInt(0), JList(1), EmptyDict }

ImageKeys == {"url", "image", "path", "photo"}

ImageRaws ==
    ImageValues
    \cup { JDict([k \in {key} |-> v]) : key \in ImageKeys \cup {"src"}, v \in ImageValues }
    \cup { JDict([k \in {"url", key} |-> IF k = "url" THEN None ELSE JStr(S_http \o T_cdn)]) :
             key \in ImageKeys \ {"url"} }

DisplayNames ==
    { None, JStr(<<>>), JStr(<<"A", " ", "B">>), JStr(<<" ", "A", "/", "B", " ">>), JInt(7) }

\* mappings to walk: every kind of value at the first and at the second level
WalkLeaves == { None, JInt(0), JInt(3), JStr(<<"x">>), JList(2), EmptyDict }

WalkDicts ==
    WalkLeaves
    \cup { JDict([k \in {"a"} |-> v]) : v \in WalkLeaves }
    \cup { JDict([k \in {"a"} |-> JDict([j \in {"b"} |-> v])]) : v \in WalkLeaves }
    \cup { JDict([k \in {"a", "b"} |-> IF k = "a" THEN JDict([j \in {"c"} |-> JInt(3)]) ELSE JInt(4)]) }

WalkPaths == { <<>>, <<"a">>, <<"b">>, <<"a", "b">>, <<"b", "a">>, <<"a", "b", "c">> }

WalkDefaults == { None, JStr(<<"d", "f", "l", "t">>) }

CallIdle == cpc = "idle" /\ cfn = "none" /\ cargs = <<>> /\ cresult = Returns(None)

CallInit ==
    /\ cpc = "call"
    /\ cresult = Returns(None)
    /\ \/ /\ cfn = "normalize_image_url"
          /\ cargs \in { <<raw, player_name>> : raw \in ImageRaws, player_name \in DisplayNames }
       \/ /\ cfn = "deep_get"
          /\ cargs \in { <<d, path, default>> : d \in WalkDicts, path \in WalkPaths,
                                                default \in WalkDefaults }

CallImage ==
    /\ cpc = "call" /\ cfn = "normalize_image_url"
    /\ cresult' = normalize_image_url(cargs[1], cargs[2])
    /\ cpc' = "done"
    /\ UNCHANGED <<cfn, cargs>>

CallDeepGet ==
    /\ cpc = "call" /\ cfn = "deep_get"
    /\ cresult' = Returns(deep_get(cargs[1], cargs[2], cargs[3]))
    /\ cpc' = "done"
    /\ UNCHANGED <<cfn, cargs>>

-----------------------------------------------------------------------------
(* get_matches: configuration *)

\* for tour in ("atp", "wta"): tour_key = tour.upper()
TourKeys == <<"ATP", "WTA">>

\* f"{tour_key} Match"
DefaultTournament(tour_key) ==
    IF tour_key = "ATP" THEN <<"A", "T", "P", " ", "M", "a", "t", "c", "h">>
    ELSE <<"W", "T", "A", " ", "M", "a", "t", "c", "h">>

\* strftime("%Y-%m-%d") of yesterday, today and tomorrow
Yesterday == <<"2024-05-01">>
Today     == <<"2024-05-02">>
Tomorrow  == <<"2024-05-03">>

date_list(design) == IF design THEN <<Today>> ELSE <<Yesterday, Today, Tomorrow>>

\* max_pages of the full mode
MaxPagesFull == 10

max_pages(design) == IF design THEN 1 ELSE MaxPagesFull

\* the pageSize asked of the upstream (100 in the source), scaled down
PageSize == 2

exclusions(design) ==
    IF design
    THEN { <<"d", "o", "u", "b", "l", "e", "s">>,
           <<"e", "x", "h", "i", "b", "i", "t", "i", "o", "n">> }
    ELSE { <<"c", "h", "a", "l", "l", "e", "n", "g", "e", "r">>, <<"i", "t", "f">>,
           <<"d", "o", "u", "b", "l", "e", "s">>,
           <<"e", "x", "h", "i", "b", "i", "t", "i", "o", "n">>,
           <<"m", "1", "5">>, <<"m", "2", "5">>, <<"w", "1", "5">>, <<"w", "3", "5">>,
           <<"w", "5", "0">>, <<"w", "7", "5">>, <<"w", "1", "0", "0">>, <<"u", "t", "r">> }

\* best_rank of a pair without any rank
UnrankedSort == 9999

S_UR == <<"U", "R">>

-----------------------------------------------------------------------------
(* get_matches: one raw record *)

\* "/" in name: a substring test on a str, a membership test on a list or a
\* dict, a TypeError on anything else
HasSlash(name) ==
    CASE name.kind = "str" -> IF Contains(name.s, <<"/">>) THEN "yes" ELSE "no"
      [] name.kind \in {"list", "dict"} -> "no"
      [] OTHER -> "TypeError"

\* m.get("id") or m.get("fixtureId") or m.get("matchId")
match_id(m) == Or(Get(m, "id", None), Or(Get(m, "fixtureId", None), Get(m, "matchId", None)))

\* match_id or f"{tourney_name}|{p1_name}|{p2_name}|{day}"
CompositeKey(tourney_name, p1_name, p2_name, day) ==
    JStr(Str(tourney_name) \o <<"|">> \o Str(p1_name) \o <<"|">> \o Str(p2_name) \o <<"|">> \o day)

dedupe_key(m, tourney_name, p1_name, p2_name, day) ==
    Or(match_id(m), CompositeKey(tourney_name, p1_name, p2_name, day))

\* p.get("image") or p.get("photo") or p.get("picture") or deep_get(p, ["images", "headshot"]) or ""
raw_image(p) ==
    Or(Get(p, "image", None), Or(Get(p, "photo", None), Or(Get(p, "picture", None),
    Or(deep_get(p, <<"images", "headshot">>, None), JStr(<<>>)))))

\* p_rank or 9999
RankOr(r) == IF Truthy(r) THEN r.n ELSE UnrankedSort

\* tourn = m.get("tournament", {}) or {}, and likewise the two players
TournOf(m) == Or(Get(m, "tournament", EmptyDict), EmptyDict)
Player1Of(m) == Or(Get(m, "player1", EmptyDict), EmptyDict)
Player2Of(m) == Or(Get(m, "player2", EmptyDict), EmptyDict)

\* tourn.get("name", f"{tour_key} Match"), p1.get("name", "Player 1"), p2.get("name", "Player 2")
TourneyName(m, tour_key) == Get(TournOf(m), "name", JStr(DefaultTournament(tour_key)))
P1Name(m) == Get(Player1Of(m), "name", JStr(<<"P", "l", "a", "y", "e", "r", " ", "1">>))
P2Name(m) == Get(Player2Of(m), "name", JStr(<<"P", "l", "a", "y", "e", "r", " ", "2">>))

Screened(why, key) == [out |-> why, key |-> key]

\* `dedupe_key in seen_keys` hashes the key: a TypeError for a list or a dict
ScreenKey(key) ==
    IF key.kind \in {"list", "dict"} THEN Screened("raise", None) ELSE Screened("pass", key)

\* the name test on p2_name alone
ScreenNamesSecondOnly(slash1, slash2, key) ==
    IF slash2 = "TypeError" THEN Screened("raise", None)
    ELSE IF slash2 = "yes" THEN Screened("team", None)
    ELSE ScreenKey(key)

\* `if "/" in p1_name or "/" in p2_name: continue`, then the key
ScreenNames(slash1, slash2, key) ==
    IF slash1 = "TypeError" THEN Screened("raise", None)
    ELSE IF slash1 = "yes" THEN Screened("team", None)
    ELSE IF slash2 = "TypeError" THEN Screened("raise", None)
    ELSE IF slash2 = "yes" THEN Screened("team", None)
    ELSE ScreenKey(key)

\* p1.get and p2.get: an AttributeError unless both are mappings
ScreenPlayers(p1, p2, p1_name, p2_name, key) ==
    IF p1.kind # "dict" \/ p2.kind # "dict" THEN Screened("raise", None)
    ELSE ScreenNames(HasSlash(p1_name), HasSlash(p2_name), key)

\* the keyword test on tourney_name as it is spelled
ScreenTournamentAsSpelled(tourn, tname, design, rest) ==
    IF tourn.kind # "dict" THEN Screened("raise", None)
    ELSE IF tname.kind # "str" THEN Screened("raise", None)
    ELSE IF \E x \in exclusions(design) : Contains(tname.s, x) THEN Screened("excluded", None)
    ELSE rest

\* name_check = tourney_name.lower(); if any(x in name_check for x in exclusions): continue
ScreenTournament(tourn, tname, design, rest) ==
    IF tourn.kind # "dict" THEN Screened("raise", None)             \* tourn.get
    ELSE IF tname.kind # "str" THEN Screened("raise", None)         \* tourney_name.lower()
    ELSE IF \E x \in exclusions(design) : Contains(Lower(tname.s), x) THEN Screened("excluded", None)
    ELSE rest

\* The body of `for m in raw_matches` up to the dedupe key, for record m fetched
\* for tour_key and day: "raise" (an exception leaves get_matches), "excluded",
\* "team", or "pass" with the key
ScreenRecord(m, tour_key, day, design) ==
    ScreenTournament(TournOf(m), TourneyName(m, tour_key), design,
        ScreenPlayers(Player1Of(m), Player2Of(m), P1Name(m), P2Name(m),
            dedupe_key(m, TourneyName(m, tour_key), P1Name(m), P2Name(m), day)))

\* p_rank if p_rank is not None else "UR"
RankDisplay(r) == IF r # None THEN r ELSE JStr(S_UR)

\* the match_obj, unless one of its parts raised
MatchObj(tname, surface, p1_name, p2_name, p1_rank, p2_rank, p1_image, p2_image, p1_avatar, p2_avatar) ==
    IF p1_rank.raised \/ p2_rank.raised THEN Raises
    ELSE IF p1_image.raised \/ p2_image.raised THEN Raises
    ELSE IF p1_avatar.raised \/ p2_avatar.raised THEN Raises
    ELSE Returns([ tournament |-> tname,
                   surface    |-> JStr(surface),
                   player1    |-> p1_name,
                   player2    |-> p2_name,
                   p1_rank    |-> RankDisplay(p1_rank.v),
                   p2_rank    |-> RankDisplay(p2_rank.v),
                   p1_image   |-> p1_image.v,
                   p2_image   |-> p2_image.v,
                   p1_avatar  |-> p1_avatar.v,
                   p2_avatar  |-> p2_avatar.v,
                   best_rank  |-> JInt(Min(RankOr(p1_rank.v), RankOr(p2_rank.v))) ])

\* The rest of the body for a record that passed and whose key is new: the
\* match_obj handed to add_match, unless an exception leaves get_matches
BuildFixture(m, tour_key) ==
    MatchObj(TourneyName(m, tour_key),
             extract_surface(TournOf(m), m),
             P1Name(m), P2Name(m),
             extract_rank_from_player_or_match(Player1Of(m), m, "player1"),
             extract_rank_from_player_or_match(Player2Of(m), m, "player2"),
             normalize_image_url(raw_image(Player1Of(m)), P1Name(m)),
             normalize_image_url(raw_image(Player2Of(m)), P2Name(m)),
             avatar_fallback_url(P1Name(m)),
             avatar_fallback_url(P2Name(m)))

\* surface in ("Unknown", "", None), for the str that extract_surface returns
NoSurface(s) == s \in {S_Unknown, <<>>}

\* if tourney_name not in all_matches[tour_key]: a new bucket with this surface
EnsureBucket(division, tourney_name, surface) ==
    IF \E i \in 1..Len(division) : division[i].name = tourney_name THEN division
    ELSE Append(division, [name |-> tourney_name, surface |-> surface, matches |-> <<>>])

\* the bucket's surface follows the last record with a known surface
UpgradedSurfaceLastWins(old, surface) == IF ~NoSurface(surface) THEN surface ELSE old

\* the bucket's surface is replaced while it is unknown and the record's is known
UpgradedSurface(old, surface) == IF NoSurface(old) /\ ~NoSurface(surface) THEN surface ELSE old

\* the surface upgrade and the append, on bucket b
AddToBucket(b, surface, match_obj) ==
    [name |-> b.name, surface |-> UpgradedSurface(b.surface, surface),
     matches |-> Append(b.matches, match_obj)]

AddAt(division, at, surface, match_obj) ==
    [division EXCEPT ![at] = AddToBucket(@, surface, match_obj)]

BucketIndex(division, tourney_name) ==
    CHOOSE i \in 1..Len(division) : division[i].name = tourney_name

AddIn(division, tourney_name, surface, match_obj) ==
    AddAt(division, BucketIndex(division, tourney_name), surface, match_obj)

\* add_match on one division, a sequence of buckets in insertion order
add_match(division, tourney_name, surface, match_obj) ==
    AddIn(EnsureBucket(division, tourney_name, surface), tourney_name, surface, match_obj)

-----------------------------------------------------------------------------
(* get_matches: sorting and the snapshot cache *)

\* list.sort(key=best_rank): a stable insertion sort
RECURSIVE InsertSorted(_, _)
InsertSorted(sorted, x) ==
    IF Len(sorted) = 0 THEN <<x>>
    ELSE IF sorted[Len(sorted)].best_rank.n <= x.best_rank.n THEN Append(sorted, x)
    ELSE Append(InsertSorted(SubSeq(sorted, 1, Len(sorted) - 1), x), sorted[Len(sorted)])

\* the sort left out
SortMatchesSkipped(ms) == ms

RECURSIVE SortMatches(_)
SortMatches(ms) ==
    IF Len(ms) = 0 THEN <<>>
    ELSE InsertSorted(SortMatches(SubSeq(ms, 1, Len(ms) - 1)), ms[Len(ms)])

\* for tour_key in all_matches: for tourney_name in ...: matches.sort(...)
SortAll(am) ==
    [k \in {"ATP", "WTA"} |->
        [i \in 1..Len(am[k]) |->
            [name |-> am[k][i].name, surface |-> am[k][i].surface,
             matches |-> SortMatches(am[k][i].matches)]]]

\* {"ATP": {}, "WTA": {}}
EmptyMatches == [k \in {"ATP", "WTA"} |-> <<>>]

\* cache/matches.json: missing, not parseable, or holding a JSON document.
\* A document is summed up by whether it is an object, its top-level keys and,
\* for a snapshot, the two divisions.
FileMissing == [kind |-> "missing", isDict |-> FALSE, keys |-> {}, body |-> EmptyMatches]
FileCorrupt == [kind |-> "corrupt", isDict |-> FALSE, keys |-> {}, body |-> EmptyMatches]
FileArray   == [kind |-> "json", isDict |-> FALSE, keys |-> {}, body |-> EmptyMatches]
FileOneKey  == [kind |-> "json", isDict |-> TRUE, keys |-> {"ATP"}, body |-> EmptyMatches]

\* json.dump(matches_dict): an object with the keys of the dict
JsonDump(matches_dict) ==
    [kind |-> "json", isDict |-> TRUE, keys |-> DOMAIN matches_dict, body |-> matches_dict]

\* load_cached_matches without the test for the two division keys
load_cached_matches_any_object(file) ==
    IF file.kind = "json" /\ file.isDict
    THEN [loaded |-> TRUE, payload |-> [k \in file.keys |-> file.body[k]]]
    ELSE [loaded |-> FALSE, payload |-> EmptyMatches]

\* load_cached_matches: the payload, or None (loaded = FALSE)
load_cached_matches(file) ==
    IF file.kind = "json" /\ file.isDict /\ "ATP" \in file.keys /\ "WTA" \in file.keys
    THEN [loaded |-> TRUE, payload |-> [k \in file.keys |-> file.body[k]]]
    ELSE [loaded |-> FALSE, payload |-> EmptyMatches]

\* What the file holds after save_cached_matches, by what the write did:
\* "written", "open_failed" (open raised: the file is as before) or
\* "dump_failed" (json.dump raised after open truncated the file)
save_cached_matches(file, matches_dict, how) ==
    CASE how = "written"     -> JsonDump(matches_dict)
      [] how = "open_failed" -> file
      [] how = "dump_failed" -> FileCorrupt

SaveOutcomes == {"written", "open_failed", "dump_failed"}

-----------------------------------------------------------------------------
(* The records the upstream API may put on a page *)

N_Rome    == JStr(<<"R", "o", "m", "e">>)
N_Itf     == JStr(<<"I", "T", "F", " ", "X">>)
N_Doubles == JStr(<<"D", "o", "u", "b", "l", "e", "s">>)

Player(name, rank) == MkDict(<< <<"name", name>>, <<"rank", rank>> >>)

Rec(tournament, player1, player2, id) ==
    MkDict(<< <<"tournament", tournament>>, <<"player1", player1>>,
              <<"player2", player2>>, <<"id", id>> >>)

RawRecords ==
    << \* 1: ranked against unparseable rank, on clay, with an upstream id
       Rec(MkDict(<< <<"name", N_Rome>>, <<"surface", JStr(S_Clay)>> >>),
           Player(JStr(<<"A">>), JInt(5)), Player(JStr(<<"B">>), JStr(<<"N", "/", "A">>)), JInt(1)),
       \* 2: another record carrying the id of record 1
       Rec(MkDict(<< <<"name", N_Rome>> >>),
           Player(JStr(<<"C">>), JStr(<<"1", "2">>)), Player(JStr(<<"B">>), Absent), JInt(1)),
       \* 3: id 0 (falsy: the composite key is used), a verbose surface label
       \*    under court.name, one ranked player
       Rec(MkDict(<< <<"name", N_Rome>>,
                     <<"court", JDict([name |-> JStr(<<"h", "a", "r", "d", " ", "c", "o", "u", "r", "t">>)])>> >>),
           Player(JStr(<<"A">>), Absent), Player(JStr(<<"C">>), JInt(3)), JInt(0)),
       \* 4: nobody ranked, id 0 as well
       Rec(MkDict(<< <<"name", N_Rome>> >>),
           Player(JStr(<<"D">>), Absent), Player(JStr(<<"E">>), JInt(5000)), JInt(0)),
       \* 5: a tournament the full mode excludes and the reduced mode keeps,
       \*    played on a surface that is none of hard, clay, grass
       Rec(MkDict(<< <<"name", N_Itf>>,
                     <<"surface", JStr(<<"C", "a", "r", "p", "e", "t">>)>> >>),
           Player(JStr(<<"A">>), JInt(7)), Player(JStr(<<"B">>), Absent), Absent),
       \* 6: a tournament both modes exclude, with a malformed player
       Rec(MkDict(<< <<"name", N_Doubles>> >>), JStr(<<"A">>), Absent, JInt(6)),
       \* 7: a team name
       Rec(MkDict(<< <<"name", N_Rome>> >>),
           Player(JStr(<<"A", "/", "B">>), Absent), Player(JStr(<<"C">>), Absent), JInt(7)),
       \* 8: the empty record
       EmptyDict,
       \* 9: tournament name is null
       Rec(MkDict(<< <<"name", None>>, <<"surface", None>> >>),
           Player(JStr(<<"A">>), Absent), Player(JStr(<<"B">>), Absent), JInt(9)),
       \* 10: tournament is a string, not a mapping
       Rec(N_Rome, Player(JStr(<<"A">>), Absent), Player(JStr(<<"B">>), Absent), JInt(10)),
       \* 11: a player that is a string, not a mapping
       Rec(MkDict(<< <<"name", N_Rome>> >>), JStr(<<"A">>), Player(JStr(<<"B">>), Absent), JInt(11)),
       \* 12: a player name that is null
       Rec(MkDict(<< <<"name", N_Rome>> >>),
           Player(None, Absent), Player(JStr(<<"B">>), Absent), JInt(12)),
       \* 13: an image object whose url is a number
       Rec(MkDict(<< <<"name", N_Rome>> >>),
           MkDict(<< <<"name", JStr(<<"A">>)>>, <<"image", JDict([url |-> JInt(5)])>> >>),
           Player(JStr(<<"B">>), Absent), JInt(13)),
       \* 14: null tournament and players, an image to upgrade to https
       Rec(None,
           MkDict(<< <<"image", JStr(<<"/", "/", "img", "/", "a.jpg">>)>> >>),
           None, JInt(14))
    >>

-----------------------------------------------------------------------------
(* get_matches: the run *)

\* most fixtures the upstream lets one run keep
MaxKept == 3

\* most successive runs of the process
MaxRuns == 3

\* What `data = try_fetch_json_with_backoff(...)` gives get_matches: the call
\* raising, None, a falsy body, a body that is no mapping, a mapping without
\* records, a mapping whose "data" is no list, or a page of len records
FetchResults ==
    { [kind |-> k, len |-> 0] :
        k \in {"raised", "none", "falsy_body", "not_mapping", "no_data", "data_not_list"} }
    \cup { [kind |-> "page", len |-> n] : n \in 1..PageSize }

\* a snapshot written by an earlier run of the process
PriorSnapshot ==
    SortAll([EmptyMatches EXCEPT !["ATP"] =
        add_match(<<>>, N_Rome.s, S_Clay,
                  BuildFixture(RawRecords[1], "ATP").v)])

NothingKept == [some |-> FALSE, body |-> EmptyMatches]

\* the locals of get_matches at its entry
RunStart ==
    /\ pc = "fetch"
    /\ tourIx = 1
    /\ dayIx = 1
    /\ page = 1
    /\ pageLen = 0
    /\ pending = 0
    /\ all_matches = EmptyMatches
    /\ seen_keys = {}
    /\ total_kept = 0
    /\ returned = EmptyMatches
    /\ fromCache = FALSE
    /\ saved = "no"
    /\ lastOut = "none"
    /\ firstOf = {}
    /\ fileOps = <<>>

AggIdle ==
    /\ pc = "idle" /\ DESIGN_MODE = TRUE /\ upstream = {} /\ run = 0
    /\ tourIx = 1 /\ dayIx = 1 /\ page = 1 /\ pageLen = 0 /\ pending = 0
    /\ all_matches = EmptyMatches /\ seen_keys = {} /\ total_kept = 0
    /\ cacheFile = FileMissing /\ returned = EmptyMatches /\ fromCache = FALSE
    /\ saved = "no" /\ lastOut = "none" /\ firstOf = {} /\ lastKept = NothingKept
    /\ fileOps = <<>>

\* What the upstream holds during one run of the process: the records of one
\* tournament with the malformed ones, or the records that take defaults
Worlds == { {1, 2, 3, 4, 7, 9, 10, 11, 12, 13}, {1, 5, 6, 8, 14} }

\* What it holds when the process runs in full mode
FullWorld == {1, 3, 5}

\* What it holds over several runs
RunsWorld == {1, 3, 6}

\* States of the cache file when the process starts: no file, an unreadable
\* one, JSON that is no snapshot, or the snapshot of an earlier run
InitialFiles == {FileMissing, FileCorrupt, FileArray, FileOneKey, JsonDump(PriorSnapshot)}

FileStart(files) ==
    /\ cacheFile \in files
    /\ lastKept = IF cacheFile = JsonDump(PriorSnapshot)
                  THEN [some |-> TRUE, body |-> PriorSnapshot]
                  ELSE NothingKept

\* One run of the process, in the reduced mode (the default) or in the full mode
AggInit ==
    /\ RunStart
    /\ run = 1
    /\ \/ DESIGN_MODE = TRUE /\ upstream \in Worlds /\ FileStart(InitialFiles)
       \/ DESIGN_MODE = FALSE /\ upstream = FullWorld
          /\ FileStart({FileMissing, JsonDump(PriorSnapshot)})

\* Successive runs of the process in the reduced mode
RunsInit ==
    /\ RunStart
    /\ run = 1
    /\ DESIGN_MODE = TRUE
    /\ upstream = RunsWorld
    /\ FileStart(InitialFiles)

\* `break` out of the while loop, or its end: on to the next day, the next
\* division, or the code after the loops
Advance ==
    IF dayIx < Len(date_list(DESIGN_MODE))
    THEN /\ dayIx' = dayIx + 1 /\ page' = 1 /\ pc' = "fetch" /\ UNCHANGED tourIx
    ELSE IF tourIx < Len(TourKeys)
    THEN /\ tourIx' = tourIx + 1 /\ dayIx' = 1 /\ page' = 1 /\ pc' = "fetch"
    ELSE /\ pc' = "finish" /\ UNCHANGED <<tourIx, dayIx, page>>

\* data = try_fetch_json_with_backoff(...), up to `for m in raw_matches`
FetchPage(res) ==
    /\ pc = "fetch"
    /\ CASE res.kind \in {"raised", "not_mapping", "data_not_list"} ->
              /\ pc' = "raised"
              /\ UNCHANGED <<tourIx, dayIx, page, pageLen, pending>>
         [] res.kind \in {"none", "falsy_body", "no_data"} ->
              /\ Advance
              /\ UNCHANGED <<pageLen, pending>>
         [] OTHER ->
              /\ pageLen' = res.len
              /\ pending' = res.len
              /\ pc' = "records"
              /\ UNCHANGED <<tourIx, dayIx, page>>
    /\ UNCHANGED <<DESIGN_MODE, upstream, run, all_matches, seen_keys, total_kept, cacheFile,
                   returned, fromCache, saved, lastOut, firstOf, lastKept, fileOps>>

\* ScreenRecord and BuildFixture of every upstream record, evaluated once
ScreenTable ==
    [i \in 1..Len(RawRecords), tk \in {"ATP", "WTA"}, day \in {Yesterday, Today, Tomorrow},
     design \in BOOLEAN |-> ScreenRecord(RawRecords[i], tk, day, design)]

FixtureTable ==
    [i \in 1..Len(RawRecords), tk \in {"ATP", "WTA"} |-> BuildFixture(RawRecords[i], tk)]

\* the loop body without `if dedupe_key in seen_keys: continue`
OutcomeOfUnchecked(s, f, seen) ==
    IF s.out # "pass" THEN s.out
    ELSE IF f.raised THEN "raise"
    ELSE "kept"

\* what becomes of a record screened as s, whose match_obj would be f
OutcomeOf(s, f, seen) ==
    IF s.out # "pass" THEN s.out
    ELSE IF s.key \in seen THEN "duplicate"
    ELSE IF f.raised THEN "raise"
    ELSE "kept"

\* history: the first record that passed the filters with its key
NoteFirst(first, s, f, tour_key, i, day) ==
    IF s.out = "pass" /\ ~f.raised /\ ~\E e \in first : e.key = s.key
    THEN first \cup {[key |-> s.key, tour |-> tour_key, fixture |-> f.v, rec |-> i, day |-> day]}
    ELSE first

\* the end of the loop body without `total_kept += 1`
HandleUncounted(out, key, fixture, tour_key) ==
    /\ lastOut' = out
    /\ CASE out = "raise" ->
              /\ pc' = "raised"
              /\ UNCHANGED <<pending, all_matches, seen_keys, total_kept>>
         [] out = "kept" ->
              /\ seen_keys' = seen_keys \cup {key}
              /\ all_matches' = [all_matches EXCEPT ![tour_key] =
                                    add_match(@, fixture.tournament.s, fixture.surface.s, fixture)]
              /\ pending' = pending - 1
              /\ UNCHANGED <<pc, total_kept>>
         [] OTHER ->
              /\ pending' = pending - 1
              /\ UNCHANGED <<pc, all_matches, seen_keys, total_kept>>

\* the end of the loop body: raise, skip with `continue`, or add_match
\* and total_kept += 1
Handle(out, key, fixture, tour_key) ==
    /\ out = "kept" => total_kept < MaxKept
    /\ lastOut' = out
    /\ CASE out = "raise" ->
              /\ pc' = "raised"
              /\ UNCHANGED <<pending, all_matches, seen_keys, total_kept>>
         [] out = "kept" ->
              /\ seen_keys' = seen_keys \cup {key}
              /\ all_matches' = [all_matches EXCEPT ![tour_key] =
                                    add_match(@, fixture.tournament.s, fixture.surface.s, fixture)]
              /\ total_kept' = total_kept + 1
              /\ pending' = pending - 1
              /\ UNCHANGED pc
         [] OTHER ->
              /\ pending' = pending - 1
              /\ UNCHANGED <<pc, all_matches, seen_keys, total_kept>>

HandleScreened(s, f, tour_key, i, day) ==
    /\ firstOf' = NoteFirst(firstOf, s, f, tour_key, i, day)
    /\ Handle(OutcomeOf(s, f, seen_keys), s.key, f.v, tour_key)

\* one pass of `for m in raw_matches`, m being record i of the upstream
HandleRecord(i) ==
    /\ pc = "records"
    /\ pending > 0
    /\ HandleScreened(ScreenTable[i, TourKeys[tourIx], date_list(DESIGN_MODE)[dayIx], DESIGN_MODE],
                      FixtureTable[i, TourKeys[tourIx]], TourKeys[tourIx],
                      i, date_list(DESIGN_MODE)[dayIx])
    /\ UNCHANGED <<DESIGN_MODE, upstream, run, tourIx, dayIx, page, pageLen, cacheFile,
                   returned, fromCache, saved, lastKept, fileOps>>

\* after the for loop: `if len(raw_matches) < 100 or DESIGN_MODE: break`, else page += 1
EndPage ==
    /\ pc = "records"
    /\ pending = 0
    /\ IF pageLen < PageSize \/ DESIGN_MODE
       THEN Advance
       ELSE IF page + 1 <= max_pages(DESIGN_MODE)
       THEN /\ page' = page + 1 /\ pc' = "fetch" /\ UNCHANGED <<tourIx, dayIx>>
       ELSE Advance
    /\ UNCHANGED <<DESIGN_MODE, upstream, run, pageLen, pending, all_matches, seen_keys,
                   total_kept, cacheFile, returned, fromCache, saved, lastOut, firstOf,
                   lastKept, fileOps>>

\* if total_kept == 0: the cached payload if there is one, else all_matches
Fallback(sorted, cached) ==
    /\ returned' = IF cached.loaded THEN cached.payload ELSE sorted
    /\ fromCache' = cached.loaded
    /\ fileOps' = Append(fileOps, "load")
    /\ UNCHANGED <<cacheFile, saved, lastKept>>

\* save_cached_matches(all_matches); return all_matches
SaveAndReturn(sorted, how) ==
    /\ cacheFile' = save_cached_matches(cacheFile, sorted, how)
    /\ saved' = how
    /\ lastKept' = [some |-> TRUE, body |-> sorted]
    /\ returned' = sorted
    /\ fromCache' = FALSE
    /\ fileOps' = Append(fileOps, "save")

\* the code after the sort without `if total_kept == 0`: the save in every run
FinishWithAlwaysSaves(sorted, how) ==
    /\ all_matches' = sorted
    /\ SaveAndReturn(sorted, how)

FinishWith(sorted, how) ==
    /\ all_matches' = sorted
    /\ IF total_kept = 0
       THEN how = "written" /\ Fallback(sorted, load_cached_matches(cacheFile))
       ELSE SaveAndReturn(sorted, how)

\* the code after the loops: sort, then the cache fallback or the save, return
Finish(how) ==
    /\ pc = "finish"
    /\ FinishWith(SortAll(all_matches), how)
    /\ pc' = "returned"
    /\ UNCHANGED <<DESIGN_MODE, upstream, run, tourIx, dayIx, page, pageLen, pending,
                   seen_keys, total_kept, lastOut, firstOf>>

\* the batch job is started again: get_matches is entered with fresh locals
NextRun ==
    /\ pc \in {"returned", "raised"}
    /\ run < MaxRuns
    /\ run' = run + 1
    /\ pc' = "fetch"
    /\ tourIx' = 1
    /\ dayIx' = 1
    /\ page' = 1
    /\ pageLen' = 0
    /\ pending' = 0
    /\ all_matches' = EmptyMatches
    /\ seen_keys' = {}
    /\ total_kept' = 0
    /\ returned' = EmptyMatches
    /\ fromCache' = FALSE
    /\ saved' = "no"
    /\ lastOut' = "none"
    /\ firstOf' = {}
    /\ fileOps' = <<>>
    /\ UNCHANGED <<DESIGN_MODE, upstream, cacheFile, lastKept>>

-----------------------------------------------------------------------------
(* Specifications *)

\* one call of try_fetch_json_with_backoff
FetchSpecInit == FetchInit /\ RankIdle /\ AggIdle /\ CallIdle

FetchSpecNext ==
    \/ \E resp \in Responses : FetchGet(resp) /\ UNCHANGED <<rankVars, aggVars, callVars>>
    \/ FetchSleep /\ UNCHANGED <<rankVars, aggVars, callVars>>
    \/ FetchExceeded /\ UNCHANGED <<rankVars, aggVars, callVars>>

SpecFetch == FetchSpecInit /\ [][FetchSpecNext]_vars

\* one call of extract_rank_from_player_or_match
RankSpecInit == FetchIdle /\ RankInit /\ AggIdle /\ CallIdle

RankSpecNext == RankCall /\ UNCHANGED <<fetchVars, aggVars, callVars>>

SpecRank == RankSpecInit /\ [][RankSpecNext]_vars

\* runs of get_matches
Init == FetchIdle /\ RankIdle /\ AggInit /\ CallIdle

Next ==
    \/ \E res \in FetchResults : FetchPage(res) /\ UNCHANGED <<fetchVars, rankVars, callVars>>
    \/ \E i \in upstream : HandleRecord(i) /\ UNCHANGED <<fetchVars, rankVars, callVars>>
    \/ EndPage /\ UNCHANGED <<fetchVars, rankVars, callVars>>
    \/ \E how \in SaveOutcomes : Finish(how) /\ UNCHANGED <<fetchVars, rankVars, callVars>>

Spec == Init /\ [][Next]_vars

\* successive runs of get_matches over one cache file
InitRuns == FetchIdle /\ RankIdle /\ RunsInit /\ CallIdle

NextRuns ==
    \/ \E res \in FetchResults : FetchPage(res) /\ UNCHANGED <<fetchVars, rankVars, callVars>>
    \/ \E i \in upstream : HandleRecord(i) /\ UNCHANGED <<fetchVars, rankVars, callVars>>
    \/ EndPage /\ UNCHANGED <<fetchVars, rankVars, callVars>>
    \/ \E how \in SaveOutcomes : Finish(how) /\ UNCHANGED <<fetchVars, rankVars, callVars>>
    \/ NextRun /\ UNCHANGED <<fetchVars, rankVars, callVars>>

SpecRuns == InitRuns /\ [][NextRuns]_vars

\* one call of normalize_image_url or of deep_get
CallSpecInit == FetchIdle /\ RankIdle /\ AggIdle /\ CallInit

CallSpecNext ==
    \/ CallImage /\ UNCHANGED <<fetchVars, rankVars, aggVars>>
    \/ CallDeepGet /\ UNCHANGED <<fetchVars, rankVars, aggVars>>

SpecCalls == CallSpecInit /\ [][CallSpecNext]_vars

-----------------------------------------------------------------------------
(* Properties of try_fetch_json_with_backoff, checked under SpecFetch *)

FetchEnded == fpc \in {"done", "raised"}

AllRateLimited == \A i \in 1..Len(responses) : ~responses[i].err /\ responses[i].status = 429

\* a GET that ended in a transport failure or in a status other than 200 and 429
IsFailure(resp) == resp.err \/ resp.status \notin {200, 429}

\* C1: the call always ends (it has ended or a step is enabled), it issues at
\* most max_retries GETs, and when it has ended after max_retries consecutive
\* 429 responses it has returned absent.
C1_BoundedRetries ==
    /\ FetchEnded \/ ENABLED FetchSpecNext
    /\ Len(responses) <= max_retries
    /\ attempt <= max_retries
    /\ (FetchEnded /\ Len(responses) = max_retries /\ AllRateLimited)
          => (fpc = "done" /\ fresult = None)

\* C2: the call never raises: whatever the GETs' outcomes and the Retry-After
\* values were, it ends by returning the parsed payload of its last GET or absent.
C2_NeverRaises ==
    /\ fpc # "raised"
    /\ fpc = "done" =>
          \/ fresult = None
          \/ /\ responses # <<>>
             /\ responses[Len(responses)].status = 200
             /\ responses[Len(responses)].parses
             /\ fresult = responses[Len(responses)].payload

\* C3: a GET that ends in a transport failure or in a status other than 200 and
\* 429 is the last GET of the call, which has returned absent without waiting:
\* every wait of the call belongs to an earlier 429.
C3_FailureReturnsAtOnce ==
    \A i \in 1..Len(responses) :
        IsFailure(responses[i]) =>
            /\ i = Len(responses)
            /\ fpc = "done"
            /\ fresult = None
            /\ Len(waits) = i - 1
            /\ attempt = i - 1

\* C3 witness: a status 500 on the third GET, after two waits, ended the call
C3_Witness ==
    /\ fpc = "done"
    /\ Len(responses) = 3
    /\ responses[3].status = 500
    /\ Len(waits) = 2

\* C4: every wait slept on a 429 is either the server-advised Retry-After
\* duration or at most the ceiling of 20 seconds, at every attempt index and
\* for every max_retries.
C4_WaitCapped ==
    \A i \in 1..Len(waits) :
        /\ waits[i].advised => Truthy(responses[i].retry_after)
        /\ ~waits[i].advised => waits[i].s <= BackoffCap

-----------------------------------------------------------------------------
(* Properties of extract_rank_from_player_or_match, checked under SpecRank *)

\* the candidate parses as an integer r with 0 < r < 5000
ValidRank(c) == IntOf(c).out = "value" /\ 0 < IntOf(c).n /\ IntOf(c).n < RankLimit

\* the first valid candidate of the list as an integer, None when there is none
FirstValid(cands) ==
    IF \E i \in 1..Len(cands) : ValidRank(cands[i])
    THEN JInt(IntOf(cands[CHOOSE i \in 1..Len(cands) :
                              ValidRank(cands[i]) /\ \A j \in 1..(i - 1) : ~ValidRank(cands[j])]).n)
    ELSE None

\* C9: the resolver never ends in an error, and its result is the first
\* candidate, in the fixed order, that parses as an integer r with 0 < r < 5000
\* (every candidate before it being rejected), or unranked (None) when no
\* candidate is valid.
C9_FirstValidCandidate ==
    rpc # "call" =>
        /\ rpc = "done"
        /\ rresult = FirstValid(RankCandidates(rplayer, rmatch, "player1"))

-----------------------------------------------------------------------------
(* Properties of get_matches, checked under Spec (one run) and SpecRuns *)

Divisions == {"ATP", "WTA"}

\* the places of the fixtures of a division: <<bucket, position>>
Slots(division) ==
    UNION { { <<b, j>> : j \in 1..Len(division[b].matches) } : b \in 1..Len(division) }

FixtureAt(division, p) == division[p[1]].matches[p[2]]

\* how many times fixture x stands in the division
CountIn(division, x) == Cardinality({ p \in Slots(division) : FixtureAt(division, p) = x })

\* the run is over and has returned with no fixture kept
ReturnedNothingFresh == pc = "returned" /\ total_kept = 0

\* the file holds a readable document with both division keys
SnapshotIn(file) == file.kind = "json" /\ file.isDict /\ Divisions \subseteq file.keys

\* C5: a run that returns having kept zero fixtures returns the stored snapshot
\* unchanged when the cache file holds one, and the empty structure with both
\* divisions present and empty when the file is missing, unreadable or no
\* snapshot; it leaves the file alone.
C5_CacheFallback ==
    ReturnedNothingFresh =>
        /\ saved = "no"
        /\ IF SnapshotIn(cacheFile)
           THEN fromCache /\ returned = cacheFile.body
           ELSE ~fromCache /\ returned = EmptyMatches

\* C5 witness: every record of the run was dropped and the snapshot of an
\* earlier run was returned
C5_Witness ==
    /\ ReturnedNothingFresh
    /\ lastOut = "excluded"
    /\ fromCache
    /\ returned = PriorSnapshot
    /\ cacheFile = JsonDump(PriorSnapshot)

\* C6: a run that returns having kept at least one fixture returns the fresh
\* aggregation, never the cached one, and the cache file then holds it; the
\* snapshot a later zero-fixture run returns is the result of the most recent
\* run that kept at least one fixture.
C6_FreshSavedAndPreferred ==
    /\ (pc = "returned" /\ total_kept > 0) =>
          /\ ~fromCache
          /\ returned = all_matches
          /\ cacheFile = JsonDump(returned)
    /\ (ReturnedNothingFresh /\ lastKept.some) =>
          /\ fromCache
          /\ returned = lastKept.body

\* history entries of a division, and those among them that gave fixture x
FirstIn(k) == { e \in firstOf : e.tour = k }

FirstGiving(k, x) == { e \in FirstIn(k) : e.fixture = x }

\* the id field a record carries, whatever its value: id, fixtureId or matchId,
\* the first that is there and not null
PresentId(m) ==
    IF Get(m, "id", None) # None THEN Get(m, "id", None)
    ELSE IF Get(m, "fixtureId", None) # None THEN Get(m, "fixtureId", None)
    ELSE Get(m, "matchId", None)

\* identity key read as "the upstream id if the record has one, else the composite"
IdentityKey(e) ==
    IF PresentId(RawRecords[e.rec]) # None THEN PresentId(RawRecords[e.rec])
    ELSE CompositeKey(e.fixture.tournament, e.fixture.player1, e.fixture.player2, e.day)

\* The fixtures of every division are exactly those of the first records that
\* passed the filters with each key: one fixture per key seen, in the bucket of
\* its tournament, and as many fixtures as keys.
OnePerKey ==
    /\ seen_keys = { e.key : e \in firstOf }
    /\ Cardinality(firstOf) = total_kept
    /\ \A k \in Divisions :
          /\ Cardinality(Slots(all_matches[k])) = Cardinality(FirstIn(k))
          /\ \A e \in FirstIn(k) :
                CountIn(all_matches[k], e.fixture) = Cardinality(FirstGiving(k, e.fixture))
          /\ \A p \in Slots(all_matches[k]) :
                /\ FirstGiving(k, FixtureAt(all_matches[k], p)) # {}
                /\ all_matches[k][p[1]].name = FixtureAt(all_matches[k], p).tournament.s

\* C7 as stated: with the identity key being the upstream id whenever the
\* record has one, no two fixtures of a division have the same key, every key
\* seen has exactly one fixture (its first occurrence) and differing keys have
\* a fixture each.
C7_DedupByPresentId ==
    /\ OnePerKey
    /\ \A e1, e2 \in firstOf :
          (e1.tour = e2.tour /\ IdentityKey(e1) = IdentityKey(e2)) => e1 = e2

\* C7 amended: with the identity key being the first of id, fixtureId and
\* matchId that is truthy, else the composite tournament|player1|player2|day,
\* at every point of a run, across its pages and days, every key seen has
\* exactly one fixture, built from the first record that passed the filters
\* with that key, no two fixtures share a key, and differing keys have a
\* fixture each.
C7_DedupByKey ==
    /\ OnePerKey
    /\ \A e1, e2 \in firstOf : e1.key = e2.key => e1 = e2
    /\ \A e \in firstOf :
          e.key = Or(match_id(RawRecords[e.rec]),
                     CompositeKey(e.fixture.tournament, e.fixture.player1, e.fixture.player2, e.day))

\* C7 witness: in the full mode, on the second day, a record whose id was kept
\* on the first day has just been skipped, two fixtures being kept
C7_Witness ==
    /\ DESIGN_MODE = FALSE
    /\ dayIx = 2
    /\ lastOut = "duplicate"
    /\ total_kept = 2
    /\ Cardinality(Slots(all_matches["ATP"])) = 2

\* the rank a fixture displays, as the number it sorts by
RankValue(d) == IF d = JStr(S_UR) THEN UnrankedSort ELSE d.n

BucketSorted(ms) ==
    /\ \A i \in 1..Len(ms) :
          ms[i].best_rank.n = Min(RankValue(ms[i].p1_rank), RankValue(ms[i].p2_rank))
    /\ \A i, j \in 1..Len(ms) : i < j => ms[i].best_rank.n <= ms[j].best_rank.n
    /\ \A i, j \in 1..Len(ms) :
          (ms[i].best_rank.n = UnrankedSort /\ ms[j].best_rank.n < UnrankedSort) => j < i

\* C8: in the structure a run returns, the fixtures of every tournament bucket
\* are in non-decreasing order of best_rank, which is the lower of the two
\* ranks, 9999 standing for an unranked player, so that a pair with nobody
\* ranked comes after every pair with a ranked player.
C8_BucketsSorted ==
    pc = "returned" =>
        \A k \in DOMAIN returned : \A b \in 1..Len(returned[k]) :
            BucketSorted(returned[k][b].matches)

\* C8 witness: a fresh bucket of two fixtures is returned, the pair with a
\* ranked player before the pair with nobody ranked
C8_Witness ==
    /\ pc = "returned"
    /\ ~fromCache
    /\ Len(returned["ATP"]) = 1
    /\ Len(returned["ATP"][1].matches) = 2
    /\ returned["ATP"][1].matches[1].best_rank.n = 3
    /\ returned["ATP"][1].matches[2].best_rank.n = UnrankedSort

\* every field of the fixture is populated: texts for the tournament, the
\* surface, the names and the image URLs, a number or "UR" for the ranks
Populated(x) ==
    /\ x.tournament.kind = "str" /\ x.surface.kind = "str"
    /\ x.player1.kind = "str" /\ x.player2.kind = "str"
    /\ x.p1_rank.kind = "int" \/ x.p1_rank = JStr(S_UR)
    /\ x.p2_rank.kind = "int" \/ x.p2_rank = JStr(S_UR)
    /\ x.p1_image.kind = "str" /\ StartsWith(x.p1_image.s, S_https)
    /\ x.p2_image.kind = "str" /\ StartsWith(x.p2_image.s, S_https)

\* C10: processing a record of a fetched page never raises, whatever is
\* missing, null or of the wrong type in it: the record is dropped or becomes
\* a fixture whose fields are all populated.
C10_RecordsNeverRaise ==
    /\ lastOut # "raise"
    /\ \A k \in Divisions : \A p \in Slots(all_matches[k]) :
          Populated(FixtureAt(all_matches[k], p))

-----------------------------------------------------------------------------
(* Properties of normalize_image_url and deep_get, checked under SpecCalls *)

ImageDone == cpc = "done" /\ cfn = "normalize_image_url"

\* C11: normalize_image_url is total: whatever the raw image reference and the
\* display name, the call returns, without an error, a str that starts with
\* https://
C11_ImageUrlTotal ==
    ImageDone =>
        /\ ~cresult.raised
        /\ cresult.v.kind = "str"
        /\ StartsWith(cresult.v.s, S_https)

DeepGetDone == cpc = "done" /\ cfn = "deep_get"

\* the value i keys down the path, when Reaches(d, path, i)
RECURSIVE At(_, _, _)
At(d, path, i) == IF i = 0 THEN d ELSE At(d, path, i - 1).d[path[i]]

\* each of the first i keys is a key of the mapping the keys before it lead to
RECURSIVE Reaches(_, _, _)
Reaches(d, path, i) ==
    \/ i = 0
    \/ /\ Reaches(d, path, i - 1)
       /\ At(d, path, i - 1).kind = "dict"
       /\ path[i] \in DOMAIN At(d, path, i - 1).d

DeepGetResult ==
    DeepGetDone =>
        /\ ~cresult.raised
        /\ cresult.v = IF Reaches(cargs[1], cargs[2], Len(cargs[2]))
                       THEN At(cargs[1], cargs[2], Len(cargs[2]))
                       ELSE cargs[3]

\* C14: deep_get returns the value at the end of the path when every key of the
\* path is present in a mapping, and otherwise (a key absent, or a value on the
\* way that is no mapping) returns the default; it never raises and leaves its
\* arguments as they were
C14_DeepGet ==
    /\ []DeepGetResult
    /\ [][cfn = "deep_get" => cargs' = cargs]_vars

\* a str stands where the path needs a mapping: the default came back
C14_Witness ==
    /\ DeepGetDone
    /\ cargs[1] = JDict([k \in {"a"} |-> JStr(<<"x">>)])
    /\ cargs[2] = <<"a", "b">>
    /\ cargs[3] = JStr(<<"d", "f", "l", "t">>)
    /\ cresult = Returns(JStr(<<"d", "f", "l", "t">>))

-----------------------------------------------------------------------------
(* Properties of the surface of fixtures and buckets, checked under Spec *)

SurfaceValues == {S_Hard, S_Clay, S_Grass, S_Unknown}

\* C12: the surface of every tournament bucket and of every fixture in the
\* structure that get_matches builds is one of Hard, Clay, Grass, Unknown
C12_SurfaceEnum ==
    \A k \in Divisions : \A b \in 1..Len(all_matches[k]) :
        /\ all_matches[k][b].surface \in SurfaceValues
        /\ \A j \in 1..Len(all_matches[k][b].matches) :
               all_matches[k][b].matches[j].surface.s \in SurfaceValues

-----------------------------------------------------------------------------
(* Properties of the record filters, checked under Spec *)

\* the text v holds the team separator
SlashIn(v) == v.kind = "str" /\ \E i \in 1..Len(v.s) : v.s[i] = "/"

NoTeamFixture ==
    \A k \in Divisions : \A p \in Slots(all_matches[k]) :
        /\ ~SlashIn(FixtureAt(all_matches[k], p).player1)
        /\ ~SlashIn(FixtureAt(all_matches[k], p).player2)

\* the step that handles one record and drops it for the given reason
Dropped(why) == pc = "records" /\ pending' = pending - 1 /\ lastOut' = why

\* C13: no fixture of the aggregated structure has a participant name holding
\* "/", and the step that drops a record for a team name adds no fixture and
\* no identity key
C13_SinglesOnly ==
    /\ []NoTeamFixture
    /\ [][Dropped("team") => UNCHANGED <<all_matches, seen_keys, total_kept>>]_vars

\* a team record was dropped after a fixture had been kept
C13_Witness ==
    /\ lastOut = "team"
    /\ total_kept = 1
    /\ JInt(7) \notin seen_keys
    /\ \E k \in Divisions : Slots(all_matches[k]) # {}

\* the tournament name holds, in whatever case, a keyword of the list in force
HoldsKeyword(lo) == \E x \in exclusions(DESIGN_MODE) : Contains(lo, x)

ExcludedName(name) == HoldsKeyword([i \in 1..Len(name) |-> LowerChar(name[i])])

\* the tournament names in the structure: of the buckets and of their fixtures
NamesIn(division) ==
    { division[b].name : b \in 1..Len(division) }
    \cup { FixtureAt(division, p).tournament.s : p \in Slots(division) }

NoExcludedFixture ==
    \A name \in NamesIn(all_matches["ATP"]) \cup NamesIn(all_matches["WTA"]) : ~ExcludedName(name)

\* C19: no bucket and no fixture of the fresh structure has a tournament name
\* holding, case-insensitively, a keyword of the exclusion list of the mode, and
\* the step that drops a record for it adds no fixture, no bucket and no
\* identity key
C19_ExclusionFilter ==
    /\ []NoExcludedFixture
    /\ [][Dropped("excluded") => UNCHANGED <<all_matches, seen_keys, total_kept>>]_vars

\* the full mode dropped the ITF record after keeping a fixture
C19_Witness ==
    /\ ~DESIGN_MODE
    /\ lastOut = "excluded"
    /\ total_kept = 1
    /\ Cardinality(seen_keys) = 1

-----------------------------------------------------------------------------
(* Properties of add_match, checked under Spec *)

KnownSurface(s) == s # S_Unknown /\ s # <<>>

\* bucket old became bucket new by the insertion of one record
Inserted(old, new) == Len(new.matches) = Len(old.matches) + 1

LastSurface(bucket) == bucket.matches[Len(bucket.matches)].surface.s

\* what one step may do to the surface of a bucket
SurfaceStep(old, new) ==
    IF KnownSurface(old.surface) THEN new.surface = old.surface
    ELSE IF Inserted(old, new) /\ KnownSurface(LastSurface(new)) THEN new.surface = LastSurface(new)
    ELSE new.surface = old.surface

\* C15: the surface of a bucket is first-known-wins: while it is unknown, the
\* insertion of a record with a known surface sets it; once it is known, no
\* step of the run changes it; a new bucket starts with the surface of its
\* first record
C15_FirstKnownWins ==
    [][\A k \in Divisions :
          /\ Len(all_matches'[k]) >= Len(all_matches[k])
          /\ \A b \in 1..Len(all_matches[k]) : SurfaceStep(all_matches[k][b], all_matches'[k][b])
          /\ \A b \in (Len(all_matches[k]) + 1)..Len(all_matches'[k]) :
                all_matches'[k][b].surface = LastSurface(all_matches'[k][b])]_vars

\* a bucket that got a clay record and then a hard one is still on clay
C15_Witness ==
    \E k \in Divisions : \E b \in 1..Len(all_matches[k]) :
        /\ pc = "records"
        /\ all_matches[k][b].surface = S_Clay
        /\ Len(all_matches[k][b].matches) = 2
        /\ all_matches[k][b].matches[1].surface.s = S_Clay
        /\ all_matches[k][b].matches[2].surface.s = S_Hard

-----------------------------------------------------------------------------
(* Properties of the pagination of get_matches, checked under Spec.  The    *)
(* request about to be made is the one for division tourIx, day dayIx and   *)
(* page `page` whenever pc = "fetch".                                       *)

DaysFetched == IF DESIGN_MODE THEN 1 ELSE 3

\* on to page 1 of the next day, of the first day of the next division, or to
\* the end of the fetching
ToNextDay ==
    IF dayIx < DaysFetched
    THEN pc' = "fetch" /\ tourIx' = tourIx /\ dayIx' = dayIx + 1 /\ page' = 1
    ELSE IF tourIx < 2
    THEN pc' = "fetch" /\ tourIx' = tourIx + 1 /\ dayIx' = 1 /\ page' = 1
    ELSE pc' = "finish"

ToNextPage == pc' = "fetch" /\ tourIx' = tourIx /\ dayIx' = dayIx /\ page' = page + 1

\* the day's pagination goes on after a page that was received in full
PageOrder ==
    /\ (pc = "fetch" /\ pc' # "records") => ToNextDay
    /\ (pc = "fetch" /\ pc' = "records") => pageLen' \in 1..PageSize
    /\ (pc = "records" /\ pc' \notin {"records", "raised"}) =>
           IF pageLen = PageSize /\ ~DESIGN_MODE /\ page < MaxPagesFull
           THEN ToNextPage
           ELSE ToNextDay

PageInRange ==
    /\ tourIx \in 1..2
    /\ dayIx \in 1..DaysFetched
    /\ page \in 1..(IF DESIGN_MODE THEN 1 ELSE MaxPagesFull)

\* C16: pages are requested in the order division, day, page, from page 1; a
\* day's pagination goes on only after a full page and not past page 10, or
\* page 1 in the reduced mode; a failed, absent or empty page ends that day's
\* pagination only, the next day or division being fetched after it
C16_Pagination == []PageInRange /\ [][PageOrder]_vars

\* the same for the pages whose request did not end the run
C16_OrderOfAnsweredPages ==
    []PageInRange /\ [][(pc = "fetch" /\ pc' = "raised") \/ PageOrder]_vars

-----------------------------------------------------------------------------
(* Properties of the use of the snapshot file by one run, checked under Spec *)

Loads == { i \in 1..Len(fileOps) : fileOps[i] = "load" }
Saves == { i \in 1..Len(fileOps) : fileOps[i] = "save" }

OneFileAccess ==
    /\ Cardinality(Loads) <= 1
    /\ Cardinality(Saves) <= 1
    /\ Loads # {} => total_kept = 0 /\ pc = "returned"
    /\ Saves # {} => total_kept > 0 /\ pc = "returned"
    /\ Loads = {} \/ Saves = {}

\* C17: a run reads the snapshot file at most once, and only on the fallback
\* path; it writes it at most once, and only when a fixture was kept; never
\* both; the file is as it was as long as no fixture is kept
C17_SnapshotAccess ==
    /\ []OneFileAccess
    /\ [][total_kept' = 0 => cacheFile' = cacheFile]_vars

\* a run without a fixture has read the snapshot an earlier run left, once
C17_Witness ==
    /\ pc = "returned"
    /\ fileOps = <<"load">>
    /\ total_kept = 0
    /\ cacheFile = JsonDump(PriorSnapshot)

-----------------------------------------------------------------------------
(* Properties of the waits of try_fetch_json_with_backoff, checked under SpecFetch *)

\* C18: every wait is followed by another GET: no wait is made after the GET of
\* the last permitted attempt, and a call that has ended has made a GET after
\* each of its waits
C18_WaitThenRetry ==
    /\ Len(waits) <= Len(responses)
    /\ waits # <<>> => Len(waits) < max_retries
    /\ (fpc = "done" /\ waits # <<>>) => Len(waits) < Len(responses)

-----------------------------------------------------------------------------
(* Properties of the counter total_kept, checked under Spec *)

FixturesIn(matches) == Cardinality(Slots(matches["ATP"])) + Cardinality(Slots(matches["WTA"]))

NoEmptyBucket ==
    \A k \in Divisions : \A b \in 1..Len(all_matches[k]) : Len(all_matches[k][b].matches) >= 1

\* C20: total_kept is the number of fixtures in the buckets of both divisions,
\* no bucket is empty, and a run that has returned took the cache fallback
\* exactly when its fresh structure holds no fixture
C20_KeptCountsFixtures ==
    /\ total_kept = FixturesIn(all_matches)
    /\ NoEmptyBucket
    /\ pc = "returned" => (fileOps = <<"load">> <=> FixturesIn(all_matches) = 0)

\* a full page was received and every record of it dropped: the fallback is taken
C20_Witness ==
    /\ pc = "returned"
    /\ pageLen = PageSize
    /\ lastOut \in {"team", "excluded"}
    /\ FixturesIn(all_matches) = 0
    /\ fileOps = <<"load">>

====
